---- MODULE Spec2Model ----
(***************************************************************************)
(* Build-time behaviour of the composite makers of atomate2.qchem.flows    *)
(* (core.py): DoubleOptMaker.make, FrequencyOptMaker.make and              *)
(* FrequencyOptFlatteningMaker.make.  One call of make is a run of the     *)
(* state machine: the statements of the method are its steps, the Jobs it  *)
(* creates are appended to jobs, and it ends either by returning a Flow    *)
(* (pc = "returned") or by raising (pc = "raised").                        *)
(***************************************************************************)
EXTENDS Integers, Sequences, FiniteSets, TLC

VARIABLES
    pc,           \* position in make: "idle", a line label, "returned", "raised"
    self,         \* the maker: its class and its dataclass fields
    args,         \* the caller's arguments of make (molecule, prev_dir)
    molecule,     \* local variable molecule
    prev_dir,     \* local variable prev_dir
    jobs,         \* local list jobs: the Jobs created so far, in build order
    opt,          \* index in jobs of the Job bound to opt / opt2 (0: unbound)
    freq,         \* index in jobs of the Job bound to freq (0: unbound)
    modes,        \* local variable modes
    frequencies,  \* local variable frequencies
    ffopt_runs,   \* local variable ffopt_runs
    reported,     \* log: frequencies[0] of each analysis Job, in build order
    flow,         \* the Flow returned
    raised        \* the exception raised

vars == <<pc, self, args, molecule, prev_dir, jobs, opt, freq, modes,
          frequencies, ffopt_runs, reported, flow, raised>>

---------------------------------------------------------------------------
(* Bounds of the model.                                                    *)

\* max_ffopt_runs is drawn from 0 .. MaxCap
MaxCap == 3
\* a concrete lowest frequency is drawn from -MaxFreq .. MaxFreq
MaxFreq == 2
\* scale is drawn from 0 .. MaxScale
MaxScale == 1

---------------------------------------------------------------------------
(* Values.  Every value a local variable holds has the same shape: its     *)
(* Python type, the Job it comes from (0: the caller), a field path or a   *)
(* label, and a number where it is one.                                    *)

Val(t, j, f, n) == [type |-> t, job |-> j, field |-> f, num |-> n]

Unbound == Val("unbound", 0, "", 0)

\* job.output: the OutputReference of the Job at index j of jobs
Output(j) == Val("OutputReference", j, "output", 0)

\* ref.name on an OutputReference is an OutputReference one field deeper
Attr(ref, name) == [ref EXCEPT !.field = @ \o "." \o name]

\* seq[i]: on an OutputReference a deeper OutputReference, on a concrete
\* list of frequencies the number at that index (index 0: the lowest)
Item(seq, i) ==
    IF seq.type = "OutputReference"
    THEN [seq EXCEPT !.field = @ \o "[" \o ToString(i) \o "]"]
    ELSE [seq EXCEPT !.type = "float", !.field = @ \o "[" \o ToString(i) \o "]"]

\* opt.output.optimized_molecule
OptimizedMolecule(j) == Attr(Output(j), "optimized_molecule")

\* opt.output.dir_name
DirName(j) == Attr(Output(j), "dir_name")

\* freq.output.calcs_reversed[0].output.frequency_modes
FrequencyModes(j) ==
    Attr(Attr(Item(Attr(Output(j), "calcs_reversed"), 0), "output"), "frequency_modes")

\* freq.output.calcs_reversed[0].output.frequencies
Frequencies(j) ==
    Attr(Attr(Item(Attr(Output(j), "calcs_reversed"), 0), "output"), "frequencies")

---------------------------------------------------------------------------
(* The inputs of a call.                                                   *)

\* a sub-maker field holds None or a stage maker, known by its name
NoMaker == "None"
StageNames == {"optimization", "pre-opt"}
FreqNames == {"frequency"}

Molecules == {Val("Molecule", 0, "H2", 0), Val("Molecule", 0, "H2O", 0)}
PrevDirs == {Val("NoneType", 0, "None", 0), Val("str", 0, "/prev", 0)}

Maker(cls, name, m1, m2, om, fm, sc, cap) ==
    [cls |-> cls, name |-> name, opt_maker1 |-> m1, opt_maker2 |-> m2,
     opt_maker |-> om, freq_maker |-> fm, scale |-> sc, max_ffopt_runs |-> cap]

DoubleOptMakers ==
    { Maker("DoubleOptMaker", "double opt", m1, m2, NoMaker, NoMaker, 1, 0) :
        m1 \in StageNames \cup {NoMaker}, m2 \in StageNames \cup {NoMaker} }

FrequencyOptMakers ==
    { Maker("FrequencyOptMaker", "frequency flattening opt", NoMaker, NoMaker, om, fm, 1, 0) :
        om \in StageNames \cup {NoMaker}, fm \in FreqNames \cup {NoMaker} }

FrequencyOptFlatteningMakers ==
    UNION { { Maker("FrequencyOptFlatteningMaker", "frequency flattening opt",
                    NoMaker, NoMaker, om, fm, sc, cap) :
                om \in StageNames \cup {NoMaker}, fm \in FreqNames \cup {NoMaker} } :
            sc \in 0 .. MaxScale, cap \in 0 .. MaxCap }

Makers == DoubleOptMakers \cup FrequencyOptMakers \cup FrequencyOptFlatteningMakers

\* what the frequencies of the analysis Job at index j are at build time: the
\* OutputReference into the Job's future output, or (a stage maker whose
\* output is already concrete) a list whose lowest entry is a number
FrequencyReadings(j) ==
    {Frequencies(j)} \cup
    { Val("list", j, "frequencies", v) : v \in (0 - MaxFreq) .. MaxFreq }

\* the modes that go with a reading
ModesOf(reading, j) ==
    IF reading.type = "OutputReference"
    THEN FrequencyModes(j)
    ELSE Val("list", j, "frequency_modes", 0)

---------------------------------------------------------------------------
(* Steps shared by the three makers.                                       *)

\* stage_maker.make(molecule, prev_dir=prev_dir): a Job named after its maker
StageMake(maker, by, mol, dir) ==
    [name |-> maker, by |-> by, molecule |-> mol, prev_dir |-> dir]

\* job.name += suffix
Renamed(job, suffix) == [job EXCEPT !.name = @ \o suffix]

\* jobs += [job, job]: the Job is appended twice
AddedTwice(js, job) == Append(Append(js, job), job)

\* jobs += [job]
Added(js, job) == Append(js, job)

NoFlow == [jobs |-> <<>>, output |-> {}, name |-> ""]
NoError == [type |-> "", line |-> 0]

\* raise: make ends with an exception of the given type at the given line
Raise(type, line) ==
    /\ pc' = "raised"
    /\ raised' = [type |-> type, line |-> line]
    /\ UNCHANGED <<self, args, molecule, prev_dir, jobs, opt, freq, modes,
                   frequencies, ffopt_runs, reported, flow>>

\* return Flow(jobs, output=..., name=self.name); an output is a set of
\* <<key path, index of the Job whose output it is>>
Return(output) ==
    /\ pc' = "returned"
    /\ flow' = [jobs |-> jobs, output |-> output, name |-> self.name]
    /\ UNCHANGED <<self, args, molecule, prev_dir, jobs, opt, freq, modes,
                   frequencies, ffopt_runs, reported, raised>>

Init ==
    /\ pc = "idle"
    /\ self = Maker("", "", NoMaker, NoMaker, NoMaker, NoMaker, 0, 0)
    /\ args = [molecule |-> Unbound, prev_dir |-> Unbound]
    /\ molecule = Unbound
    /\ prev_dir = Unbound
    /\ jobs = <<>>
    /\ opt = 0
    /\ freq = 0
    /\ modes = Unbound
    /\ frequencies = Unbound
    /\ ffopt_runs = 0
    /\ reported = <<>>
    /\ flow = NoFlow
    /\ raised = NoError

\* maker.make(molecule, prev_dir): the call binds self and the parameters
Call ==
    /\ pc = "idle"
    /\ \E mk \in Makers, mol \in Molecules, dir \in PrevDirs :
          /\ self' = mk
          /\ args' = [molecule |-> mol, prev_dir |-> dir]
          /\ molecule' = mol
          /\ prev_dir' = dir
          /\ pc' = mk.cls
    /\ UNCHANGED <<jobs, opt, freq, modes, frequencies, ffopt_runs, reported,
                   flow, raised>>

---------------------------------------------------------------------------
(* DoubleOptMaker.make                                                     *)

\* if self.opt_maker1: a maker object is truthy, None is not
Truthy(maker) == maker # NoMaker

\* jobs = []; if self.opt_maker1:
D_Begin ==
    /\ pc = "DoubleOptMaker"
    /\ jobs' = <<>>
    /\ pc' = IF Truthy(self.opt_maker1) THEN "D_Opt1" ELSE "D_Opt2"
    /\ UNCHANGED <<self, args, molecule, prev_dir, opt, freq, modes,
                   frequencies, ffopt_runs, reported, flow, raised>>

\* opt1 = self.opt_maker1.make(...); opt1.name += " 1"; jobs += [opt1];
\* molecule, prev_dir = opt1.output.optimized_molecule, opt1.output.dir_name
D_Opt1 ==
    /\ pc = "D_Opt1"
    /\ LET opt1 == Renamed(StageMake(self.opt_maker1, "opt_maker1", molecule, prev_dir), " 1")
       IN  /\ jobs' = Added(jobs, opt1)
           /\ molecule' = OptimizedMolecule(Len(jobs) + 1)
           /\ prev_dir' = DirName(Len(jobs) + 1)
    /\ pc' = "D_Opt2"
    /\ UNCHANGED <<self, args, opt, freq, modes, frequencies, ffopt_runs,
                   reported, flow, raised>>

\* opt2.name += " 1": the first stage's suffix is repeated
D_Rename2As1(job) == Renamed(job, " 1")

\* opt2.name += " 2"
D_Rename2(job) == Renamed(job, " 2")

\* opt2 = self.opt_maker2.make(...); opt2.name += " 2"; jobs += [opt2]
D_Opt2 ==
    /\ pc = "D_Opt2"
    /\ IF self.opt_maker2 = NoMaker
       THEN Raise("AttributeError", 85)
       ELSE /\ jobs' = Added(jobs, D_Rename2(StageMake(self.opt_maker2, "opt_maker2", molecule, prev_dir)))
            /\ opt' = Len(jobs) + 1
            /\ pc' = "D_Return"
            /\ UNCHANGED <<self, args, molecule, prev_dir, freq, modes,
                           frequencies, ffopt_runs, reported, flow, raised>>

\* output=opt1.output: the first Job's output is designated
D_OutputFirst(opt2) == { << <<>>, 1 >> }

\* output=opt2.output
D_Output(opt2) == { << <<>>, opt2 >> }

\* return Flow(jobs, output=opt2.output, name=self.name)
D_Return ==
    /\ pc = "D_Return"
    /\ Return(D_Output(opt))

---------------------------------------------------------------------------
(* FrequencyOptMaker.make                                                  *)

\* jobs = []; opt = self.opt_maker.make(...); opt.name += " 1"; jobs += [opt];
\* molecule, prev_dir = opt.output.optimized_molecule, opt.output.dir_name
F_Opt ==
    /\ pc = "FrequencyOptMaker"
    /\ IF self.opt_maker = NoMaker
       THEN Raise("AttributeError", 142)
       ELSE /\ jobs' = Added(<<>>, Renamed(StageMake(self.opt_maker, "opt_maker", molecule, prev_dir), " 1"))
            /\ opt' = 1
            /\ molecule' = OptimizedMolecule(1)
            /\ prev_dir' = DirName(1)
            /\ pc' = "F_Freq"
            /\ UNCHANGED <<self, args, freq, modes, frequencies, ffopt_runs,
                           reported, flow, raised>>

\* the frequency Job is built from the caller's molecule and prev_dir
F_FreqJobFromArgs(maker, mol, dir) ==
    StageMake(maker, "freq_maker", args.molecule, args.prev_dir)

\* freq = self.freq_maker.make(molecule, prev_dir=prev_dir)
F_FreqJob(maker, mol, dir) == StageMake(maker, "freq_maker", mol, dir)

\* freq = self.freq_maker.make(...); freq.name += " 1"; jobs += [freq];
\* modes = ...frequency_modes; frequencies = ...frequencies
F_Freq ==
    /\ pc = "F_Freq"
    /\ IF self.freq_maker = NoMaker
       THEN Raise("AttributeError", 149)
       ELSE /\ jobs' = Added(jobs, Renamed(F_FreqJob(self.freq_maker, molecule, prev_dir), " 1"))
            /\ freq' = Len(jobs) + 1
            /\ \E reading \in FrequencyReadings(Len(jobs) + 1) :
                  /\ frequencies' = reading
                  /\ modes' = ModesOf(reading, Len(jobs) + 1)
            /\ pc' = "F_Return"
            /\ UNCHANGED <<self, args, molecule, prev_dir, opt, ffopt_runs,
                           reported, flow, raised>>

\* output={'opt': opt.output, 'freq': freq.output}
F_Output(o, f) == { << <<"opt">>, o >>, << <<"freq">>, f >> }

\* return Flow(jobs, output={'opt': opt.output, 'freq': freq.output}, ...)
F_Return ==
    /\ pc = "F_Return"
    /\ Return(F_Output(opt, freq))

---------------------------------------------------------------------------
(* FrequencyOptFlatteningMaker.make                                        *)

\* jobs = []; opt = self.opt_maker.make(...); opt.name += " 1"; jobs += [opt];
\* molecule, prev_dir = opt.output.optimized_molecule, opt.output.dir_name
L_Opt ==
    /\ pc = "FrequencyOptFlatteningMaker"
    /\ IF self.opt_maker = NoMaker
       THEN Raise("AttributeError", 195)
       ELSE /\ jobs' = Added(<<>>, Renamed(StageMake(self.opt_maker, "opt_maker", molecule, prev_dir), " 1"))
            /\ opt' = 1
            /\ molecule' = OptimizedMolecule(1)
            /\ prev_dir' = DirName(1)
            /\ pc' = "L_Freq"
            /\ UNCHANGED <<self, args, freq, modes, frequencies, ffopt_runs,
                           reported, flow, raised>>

\* the suffix of the first analysis Job is left out
L_RenameNone(job) == job

\* freq.name += " 1"
L_Rename1(job) == Renamed(job, " 1")

\* freq = self.freq_maker.make(...); freq.name += " 1"; jobs += [freq];
\* modes = ...frequency_modes; frequencies = ...frequencies; ffopt_runs = 1
L_Freq ==
    /\ pc = "L_Freq"
    /\ IF self.freq_maker = NoMaker
       THEN Raise("AttributeError", 202)
       ELSE /\ jobs' = Added(jobs, L_Rename1(StageMake(self.freq_maker, "freq_maker", molecule, prev_dir)))
            /\ freq' = Len(jobs) + 1
            /\ \E reading \in FrequencyReadings(Len(jobs) + 1) :
                  /\ frequencies' = reading
                  /\ modes' = ModesOf(reading, Len(jobs) + 1)
                  /\ reported' = Append(reported, Item(reading, 0))
            /\ ffopt_runs' = 1
            /\ pc' = "L_Guard"
            /\ UNCHANGED <<self, args, molecule, prev_dir, opt, flow, raised>>

\* frequencies[0] <= 0 and ...: a lowest frequency of 0 counts as negative
LoopGuardNonPositive(lowest, runs, cap) == lowest <= 0 /\ runs < cap

\* frequencies[0] < 0 and ffopt_runs < self.max_ffopt_runs, on numbers
LoopGuard(lowest, runs, cap) == lowest < 0 /\ runs < cap

\* while frequencies[0] < 0 and ffopt_runs < self.max_ffopt_runs:
\* an OutputReference defines no ordering, so comparing one with 0 raises
L_Guard ==
    /\ pc = "L_Guard"
    /\ LET lowest == Item(frequencies, 0)
       IN  IF lowest.type = "OutputReference"
           THEN Raise("TypeError", 209)
           ELSE /\ pc' = IF LoopGuard(lowest.num, ffopt_runs, self.max_ffopt_runs)
                         THEN "L_Body" ELSE "L_Return"
                /\ UNCHANGED <<self, args, molecule, prev_dir, jobs, opt, freq,
                               modes, frequencies, ffopt_runs, reported, flow,
                               raised>>

\* range(x) takes an integer; a Molecule or an OutputReference is none
IsIndex(x) == x.type = "int"

\* the loop body: mode = modes[0]; molecule_copy = deepcopy(molecule);
\* for ii in range(molecule): translate_sites(..., vec * self.get("scale", 1.0));
\* then the next opt and freq Jobs.  range(molecule) raises TypeError for the
\* molecule the body is entered with; were it an integer, an integer above 0
\* would reach self.get, which a Maker does not have, and 0 would skip the
\* for loop and build the next pair from the unchanged copy.
L_Body ==
    /\ pc = "L_Body"
    /\ IF ~IsIndex(molecule)
       THEN Raise("TypeError", 212)
       ELSE IF molecule.num > 0
       THEN Raise("AttributeError", 214)
       ELSE LET runs == ffopt_runs + 1
                o == Len(jobs) + 1
                f == Len(jobs) + 2
                optJob == Renamed(StageMake(self.opt_maker, "opt_maker", molecule, prev_dir),
                                  " " \o ToString(runs))
                freqJob == Renamed(StageMake(self.freq_maker, "freq_maker",
                                             OptimizedMolecule(o), DirName(o)),
                                   " " \o ToString(runs))
            IN  /\ ffopt_runs' = runs
                /\ jobs' = Added(Added(jobs, optJob), freqJob)
                /\ opt' = o
                /\ freq' = f
                /\ molecule' = OptimizedMolecule(o)
                /\ prev_dir' = DirName(o)
                /\ \E reading \in FrequencyReadings(f) :
                      /\ frequencies' = reading
                      /\ modes' = ModesOf(reading, f)
                      /\ reported' = Append(reported, Item(reading, 0))
                /\ pc' = "L_Guard"
                /\ UNCHANGED <<self, args, flow, raised>>

\* output={'opt_latest': opt.output, 'freq_latest': freq.output}
L_Output(o, f) == { << <<"opt_latest">>, o >>, << <<"freq_latest">>, f >> }

\* return Flow(jobs, output={'opt_latest': ..., 'freq_latest': ...}, ...)
L_Return ==
    /\ pc = "L_Return"
    /\ Return(L_Output(opt, freq))

---------------------------------------------------------------------------

Next ==
    \/ Call
    \/ D_Begin
    \/ D_Opt1
    \/ D_Opt2
    \/ D_Return
    \/ F_Opt
    \/ F_Freq
    \/ F_Return
    \/ L_Opt
    \/ L_Freq
    \/ L_Guard
    \/ L_Body
    \/ L_Return

Spec == Init /\ [][Next]_vars

---------------------------------------------------------------------------
(* Vocabulary of the properties.                                           *)

Terminal == pc \in {"returned", "raised"}

IsDouble == self.cls = "DoubleOptMaker"
IsFreqOpt == self.cls = "FrequencyOptMaker"
IsFlattening == self.cls = "FrequencyOptFlatteningMaker"

\* the analysis of iteration i reported a concrete lowest frequency
Concrete(i) == i <= Len(reported) /\ reported[i].type = "float"

\* the indices of the Jobs of js built by the given sub-maker field
BuiltBy(js, field) == { i \in 1 .. Len(js) : js[i].by = field }

\* the keys of a Flow output and the Job a key is bound to
Keys(output) == { p[1] : p \in output }
BoundTo(output, key) == { p[2] : p \in { q \in output : q[1] = key } }

\* the name of the Job of iteration i built by a maker
Numbered(maker, i) == maker \o " " \o ToString(i)

\* a required sub-maker of the composite is missing
MissingRequired ==
    \/ IsDouble /\ self.opt_maker2 = NoMaker
    \/ (IsFreqOpt \/ IsFlattening) /\ (self.opt_maker = NoMaker \/ self.freq_maker = NoMaker)

\* the geometry mol with every atom i translated by scale * mode[i]
Translated(mol, mode, scale) ==
    IF scale = 0
    THEN mol
    ELSE Val("Molecule", mol.job,
             mol.field \o " + " \o ToString(scale) \o " * " \o mode.field, 0)

---------------------------------------------------------------------------
(* Properties.                                                             *)

\* C1: with max_ffopt_runs = 3 and a negative lowest frequency reported by
\* iteration 1, make returns a Flow of exactly the 6 Jobs opt 1, freq 1,
\* opt 2, freq 2, opt 3, freq 3 whose output is the iteration-3 pair.
C1_SixJobsAtCapThree ==
    (/\ Terminal /\ IsFlattening /\ self.max_ffopt_runs = 3
     /\ Concrete(1) /\ reported[1].num < 0)
    => /\ pc = "returned"
       /\ Len(flow.jobs) = 6
       /\ \A i \in 1 .. 3 :
             /\ flow.jobs[2 * i - 1].name = Numbered(self.opt_maker, i)
             /\ flow.jobs[2 * i].name = Numbered(self.freq_maker, i)
       /\ flow.output = L_Output(5, 6)

C3_EndsWithLatestPair ==
    (/\ Terminal /\ IsFlattening /\ Len(reported) >= 1
     /\ \A i \in 1 .. Len(reported) : Concrete(i))
    => /\ pc = "returned"
       /\ \/ reported[Len(reported)].num >= 0
          \/ ffopt_runs >= self.max_ffopt_runs
       /\ Keys(flow.output) = {<<"opt_latest">>, <<"freq_latest">>}
       /\ flow.output = L_Output(Len(flow.jobs) - 1, Len(flow.jobs))
       /\ flow.jobs[Len(flow.jobs) - 1].by = "opt_maker"
       /\ flow.jobs[Len(flow.jobs)].by = "freq_maker"

C5_PerturbedNextInput ==
    (/\ Terminal /\ IsFlattening
     /\ Concrete(1) /\ reported[1].num < 0
     /\ 1 < self.max_ffopt_runs)
    => /\ Len(jobs) >= 3
       /\ jobs[3].molecule =
             Translated(OptimizedMolecule(1), Item(ModesOf(reported[1], 2), 0), self.scale)

C7_TwoChainedJobs ==
    (pc = "returned" /\ IsDouble /\ self.opt_maker1 # NoMaker)
    => /\ Len(flow.jobs) = 2
       /\ flow.jobs[1].name = self.opt_maker1 \o " 1"
       /\ flow.jobs[2].name = self.opt_maker2 \o " 2"
       /\ flow.jobs[2].molecule = OptimizedMolecule(1)
       /\ flow.jobs[2].prev_dir = DirName(1)
       /\ flow.jobs[2].molecule # args.molecule
       /\ flow.jobs[2].prev_dir # args.prev_dir
       /\ flow.output = { << <<>>, 2 >> }

C7_Witness ==
    /\ pc = "returned" /\ IsDouble
    /\ self.opt_maker1 # NoMaker
    /\ self.opt_maker1 # self.opt_maker2

\* C8 as stated: with opt_maker1 None the Flow holds exactly one Job, built
\* from the caller's molecule and prev_dir, named by the stage maker's base
\* name with no stage-count suffix.
C8_SingleUnsuffixed ==
    (pc = "returned" /\ IsDouble /\ self.opt_maker1 = NoMaker)
    => /\ Len(flow.jobs) = 1
       /\ flow.jobs[1].molecule = args.molecule
       /\ flow.jobs[1].prev_dir = args.prev_dir
       /\ flow.jobs[1].name = self.opt_maker2

\* C8 amended: with opt_maker1 None the Flow holds exactly one Job, built
\* from the caller's molecule and prev_dir, named by the stage maker's base
\* name followed by the suffix " 2".
C8_SingleSuffixedTwo ==
    (pc = "returned" /\ IsDouble /\ self.opt_maker1 = NoMaker)
    => /\ Len(flow.jobs) = 1
       /\ flow.jobs[1].molecule = args.molecule
       /\ flow.jobs[1].prev_dir = args.prev_dir
       /\ flow.jobs[1].name = self.opt_maker2 \o " 2"

C8_Witness ==
    /\ pc = "returned" /\ IsDouble
    /\ self.opt_maker1 = NoMaker
    /\ Len(flow.jobs) = 1

\* C9: the Flow of FrequencyOptMaker has an output with exactly the keys
\* "opt" and "freq", bound to the optimization Job and the frequency Job,
\* both contained in the Flow, and the frequency Job takes the optimization
\* Job's future outputs as molecule and prev_dir.
C9_OptFreqOutput ==
    (pc = "returned" /\ IsFreqOpt)
    => /\ Keys(flow.output) = {<<"opt">>, <<"freq">>}
       /\ \E o \in 1 .. Len(flow.jobs), f \in 1 .. Len(flow.jobs) :
             /\ BoundTo(flow.output, <<"opt">>) = {o}
             /\ BoundTo(flow.output, <<"freq">>) = {f}
             /\ flow.jobs[o].by = "opt_maker"
             /\ flow.jobs[f].by = "freq_maker"
             /\ flow.jobs[f].molecule = OptimizedMolecule(o)
             /\ flow.jobs[f].prev_dir = DirName(o)

C9_Witness ==
    /\ pc = "returned" /\ IsFreqOpt
    /\ Len(flow.jobs) = 2

\* C10: a composite with a required sub-maker missing fails before any Job
\* has been created: when make has ended, it has raised and built no Job.
C10_FailsBeforeAnyJob ==
    (Terminal /\ MissingRequired)
    => /\ pc = "raised"
       /\ Len(jobs) = 0

====
